---- MODULE Spec2Model ----
(***************************************************************************)
(* Variable elimination over discrete Bayes nets (src/bnetbase.py).        *)
(*                                                                         *)
(* Objects live in heaps: V is the sequence of Variable objects, Fac the   *)
(* sequence of Factor objects; a reference to an object is its position.   *)
(* Python positions are 0-based: table entry values[i] of the code is      *)
(* values[i + 1] here, and evidence_index / assignment_index keep the      *)
(* code's 0-based values.                                                  *)
(*                                                                         *)
(* Table entries are non-negative rationals k / D with one common          *)
(* denominator D; the model stores the numerator k.  Every entry of the    *)
(* unnormalized distribution is a sum of products holding one entry of     *)
(* each CPT, so D cancels in the normalization and a normalized entry is   *)
(* the exact rational <<num, den>>.                                        *)
(***************************************************************************)
EXTENDS Integers, Sequences, FiniteSets, TLC

\* ----------------------------------------------------------------- bounds
\* largest table entry (numerator) a network is populated with
MaxVal == 2
\* longest EvidenceVars list a caller passes to VE
MaxEvidence == 2
\* variables whose assignment_index a caller has left away from 0 before VE
MaxAssign == 1

\* ------------------------------------------------------------ small helpers
None == 0
ValueError == -1

Range(s) == {s[i] : i \in 1..Len(s)}

RECURSIVE RemoveFirst(_, _)
\* list.remove(x): drops the first occurrence of x
RemoveFirst(s, x) ==
  IF s = <<>> THEN <<>>
  ELSE IF Head(s) = x THEN Tail(s)
  ELSE <<Head(s)>> \o RemoveFirst(Tail(s), x)

RECURSIVE SumSeq(_)
SumSeq(s) == IF s = <<>> THEN 0 ELSE Head(s) + SumSeq(Tail(s))

\* ---------------------------------------------------------------- Variable
Variable_init(name, domain) ==
  [name |-> name, dom |-> domain, evidence_index |-> 0, assignment_index |-> 0]

\* self.dom.index(value): the first position holding value, else ValueError
value_index(var, value) ==
  IF \E i \in 1..Len(var.dom) : var.dom[i] = value
  THEN (CHOOSE i \in 1..Len(var.dom) :
          var.dom[i] = value /\ \A j \in 1..(i - 1) : var.dom[j] # value) - 1
  ELSE ValueError

domain_size(var) == Len(var.dom)

get_evidence(var) == var.dom[var.evidence_index + 1]

get_assignment(var) == var.dom[var.assignment_index + 1]

\* self.dom.append(val) for every val of values
add_domain_values(Vh, v, values) == [Vh EXCEPT ![v].dom = @ \o values]

\* value_index raising ValueError ends the call before the index is stored
set_evidence(Vh, v, val) ==
  IF value_index(Vh[v], val) = ValueError THEN Vh
  ELSE [Vh EXCEPT ![v].evidence_index = value_index(Vh[v], val)]

set_assignment_as_evidence(Vh, v, val) ==
  IF value_index(Vh[v], val) = ValueError THEN Vh
  ELSE [Vh EXCEPT ![v].evidence_index = value_index(Vh[v], val)]

set_assignment(Vh, v, val) ==
  IF value_index(Vh[v], val) = ValueError THEN Vh
  ELSE [Vh EXCEPT ![v].assignment_index = value_index(Vh[v], val)]

set_assignment_index(Vh, v, index) ==
  [Vh EXCEPT ![v].assignment_index = index]

\* ------------------------------------------------------------------ Factor
RECURSIVE TableSize(_, _)
\* size = 1; for v in scope: size = size * v.domain_size()
TableSize(Vh, scope) ==
  IF scope = <<>> THEN 1
  ELSE domain_size(Vh[Head(scope)]) * TableSize(Vh, Tail(scope))

Factor_init_sum(Vh, scope) ==
  [scope |-> scope,
   values |-> [i \in 1..SumSeq([k \in 1..Len(scope) |-> domain_size(Vh[scope[k]])]) |-> 0]]

Factor_init(Vh, scope) ==
  [scope |-> scope, values |-> [i \in 1..TableSize(Vh, scope) |-> 0]]

RECURSIVE RowIndex(_, _, _, _)
\* index = index * v.domain_size() + v.value_index(t[0]); t = t[1:]
RowIndex(Vh, scope, t, index) ==
  IF scope = <<>> THEN index
  ELSE RowIndex(Vh, Tail(scope), Tail(t),
                index * domain_size(Vh[Head(scope)]) + value_index(Vh[Head(scope)], Head(t)))

RECURSIVE CurrentIndex(_, _, _)
\* index = index * v.domain_size() + v.get_assignment_index()
CurrentIndex(Vh, scope, index) ==
  IF scope = <<>> THEN index
  ELSE CurrentIndex(Vh, Tail(scope),
                    index * domain_size(Vh[Head(scope)]) + Vh[Head(scope)].assignment_index)

RECURSIVE add_values(_, _, _)
\* rows: each one value per scope variable followed by the number
add_values(Vh, f, rows) ==
  IF rows = <<>> THEN f
  ELSE LET t == Head(rows)
           index == RowIndex(Vh, f.scope, t, 0)
       IN add_values(Vh, [f EXCEPT !.values[index + 1] = t[Len(f.scope) + 1]], Tail(rows))

add_value_at_current_assignment(Vh, f, number) ==
  [f EXCEPT !.values[CurrentIndex(Vh, f.scope, 0) + 1] = number]

RECURSIVE RowIndexNoRadix(_, _, _, _)
RowIndexNoRadix(Vh, scope, t, index) ==
  IF scope = <<>> THEN index
  ELSE RowIndexNoRadix(Vh, Tail(scope), Tail(t),
                       index * 2 + value_index(Vh[Head(scope)], Head(t)))

get_value_radix2(Vh, f, variable_values) ==
  f.values[RowIndexNoRadix(Vh, f.scope, variable_values, 0) + 1]

get_value(Vh, f, variable_values) ==
  f.values[RowIndex(Vh, f.scope, variable_values, 0) + 1]

get_value_at_current_assignments(Vh, f) ==
  f.values[CurrentIndex(Vh, f.scope, 0) + 1]

\* ---------------------------------------------------------------------- BN
\* Net.factors(): list(self.Factors), a new list object holding the same factors
BN_factors_alias(ls) == [ref |-> "bn", lists |-> ls]

BN_factors(ls) == [ref |-> "work", lists |-> [ls EXCEPT !.work = ls.bn]]

\* ------------------------------------------------------- utility functions
RECURSIVE get_var_in_scope_loop(_, _, _)
get_var_in_scope_loop(Vh, scope, var2) ==
  IF scope = <<>> THEN None
  ELSE IF Vh[Head(scope)].name = Vh[var2].name THEN Head(scope)
  ELSE get_var_in_scope_loop(Vh, Tail(scope), var2)

\* the first variable of the factor's scope whose name is var2's name
get_var_in_scope(Vh, factor, var2) == get_var_in_scope_loop(Vh, factor.scope, var2)

RECURSIVE assign_loop(_, _, _, _, _, _)
assign_loop(Vh, Fh, var, val, F, assigned_factors) ==
  IF F = <<>> THEN [V |-> Vh, assigned |-> assigned_factors]
  ELSE LET factor == Head(F)
           f_var == get_var_in_scope(Vh, Fh[factor], var)
       IN IF f_var # None
          THEN assign_loop(set_assignment(Vh, f_var, val), Fh, var, val, Tail(F),
                           Append(assigned_factors, factor))
          ELSE assign_loop(Vh, Fh, var, val, Tail(F), assigned_factors)

\* for each factor of F that includes var, assign val to var; returns the
\* variable heap after the assignments and the list of factors assigned
assign(Vh, Fh, var, val, F) == assign_loop(Vh, Fh, var, val, F, <<>>)

\* -------------------------------------------------------------- compute
\* The functions below run on a record H of the objects they can reach: H.V
\* and H.Fac are the heaps, H.factors the list the caller passed; each returns
\* the record as the call leaves it.

\* assign(var, val, F), for the assignments it makes
assigned_in(H, var, val, F) == [H EXCEPT !.V = assign(H.V, H.Fac, var, val, F).V]

RECURSIVE ProductAtCurrent(_, _, _)
\* product = 1; for f in F: product = product * f.get_value_at_current_assignments()
ProductAtCurrent(Vh, Fh, F) ==
  IF F = <<>> THEN 1
  ELSE get_value_at_current_assignments(Vh, Fh[Head(F)]) * ProductAtCurrent(Vh, Fh, Tail(F))

compute_base_overwrite(H, g, F) ==
  [H EXCEPT !.Fac[g] =
     add_value_at_current_assignment(H.V, H.Fac[g], ProductAtCurrent(H.V, H.Fac, F))]

\* the base case: g.add_value_at_current_assignment(old_val + product)
compute_base(H, g, F) ==
  [H EXCEPT !.Fac[g] =
     add_value_at_current_assignment(H.V, H.Fac[g],
        get_value_at_current_assignments(H.V, H.Fac[g]) + ProductAtCurrent(H.V, H.Fac, F))]

RECURSIVE compute(_, _, _, _)
RECURSIVE compute_vals(_, _, _, _, _, _)
\* for val in var.domain(): assign(var, val, [g]); assign(var, val, F); compute(g, list(scope), F)
compute_vals(H, g, var, vals, scope, F) ==
  IF vals = <<>> THEN H
  ELSE compute_vals(
         compute(assigned_in(assigned_in(H, var, Head(vals), <<g>>), var, Head(vals), F),
                 g, scope, F),
         g, var, Tail(vals), scope, F)

\* g(current assignment) = g(current assignment) + product of F, for every
\* assignment of the variables of scope
compute(H, g, scope, F) ==
  IF scope = <<>> THEN compute_base(H, g, F)
  ELSE compute_vals(H, g, Head(scope), H.V[Head(scope)].dom, Tail(scope), F)

\* -------------------------------------------------------------- restrict
\* the new factor g takes the place of factors[i]
restrict_replace(H, i, factor, var, g_scope) ==
  compute([H EXCEPT !.Fac = Append(H.Fac, Factor_init(H.V, g_scope)),
                    !.factors[i] = Len(H.Fac) + 1],
          Len(H.Fac) + 1, g_scope, <<factor>>)

restrict_found_unassigned(H, e_var, i, var) ==
  IF var = None THEN H
  ELSE restrict_replace(H, i, H.factors[i], var, RemoveFirst(H.Fac[H.factors[i]].scope, var))

restrict_found_keep(H, e_var, i, var) ==
  IF var = None THEN H
  ELSE restrict_replace([H EXCEPT !.V = set_assignment(H.V, var, get_evidence(H.V[e_var]))],
                        i, H.factors[i], var, H.Fac[H.factors[i]].scope)

\* if var: var.set_assignment(e_var.get_evidence()); g_scope = factor.get_scope();
\* g_scope.remove(var); g = Factor("", g_scope); compute(g, list(g_scope), [factor])
restrict_found(H, e_var, i, var) ==
  IF var = None THEN H
  ELSE restrict_replace([H EXCEPT !.V = set_assignment(H.V, var, get_evidence(H.V[e_var]))],
                        i, H.factors[i], var, RemoveFirst(H.Fac[H.factors[i]].scope, var))

\* the body of the inner loop: factors[i] against the evidence variable e_var
restrict_one(H, e_var, i) ==
  restrict_found(H, e_var, i, get_var_in_scope(H.V, H.Fac[H.factors[i]], e_var))

RECURSIVE restrict_factors(_, _, _)
\* for i in range(0, len(factors))
restrict_factors(H, e_var, i) ==
  IF i > Len(H.factors) THEN H
  ELSE restrict_factors(restrict_one(H, e_var, i), e_var, i + 1)

RECURSIVE restrict(_, _)
\* for e_var in EvidenceVars
restrict(H, EvidenceVars) ==
  IF EvidenceVars = <<>> THEN H
  ELSE restrict(restrict_factors(H, Head(EvidenceVars), 1), Tail(EvidenceVars))

\* ------------------------------------------------------------ eliminateZ
\* Here H also holds the loop's locals: H.orderedList, and H.z, H.g, H.F of
\* the last pass.

\* compute(g, list(g_scope), F) for the F that assign returned
eliminate_compute(H, a, g, g_scope) ==
  compute([H EXCEPT !.V = a.V, !.F = a.assigned], g, g_scope, a.assigned)

eliminate_vals_once(H, z, vals, g, g_scope) ==
  IF vals = <<>> THEN H
  ELSE eliminate_compute(H, assign(H.V, H.Fac, z, Head(vals), H.factors), g, g_scope)

RECURSIVE eliminate_vals(_, _, _, _, _)
\* for z_val in z.domain(): F = assign(z, z_val, factors); compute(g, list(g_scope), F)
eliminate_vals(H, z, vals, g, g_scope) ==
  IF vals = <<>> THEN H
  ELSE eliminate_vals(
         eliminate_compute(H, assign(H.V, H.Fac, z, Head(vals), H.factors), g, g_scope),
         z, Tail(vals), g, g_scope)

RECURSIVE RemoveAll(_, _)
\* for item in F: factors.remove(item)
RemoveAll(factors, F) ==
  IF F = <<>> THEN factors ELSE RemoveAll(RemoveFirst(factors, Head(F)), Tail(F))

eliminate_scope_with_z(orderedList, QueryVar) == Append(orderedList, QueryVar)

\* g_scope = list(orderedList); g_scope.append(QueryVar), after z was popped
eliminate_scope(orderedList, QueryVar) == Append(Tail(orderedList), QueryVar)

eliminate_replace_first(H) ==
  [H EXCEPT !.factors = Append(IF H.F = <<>> THEN @ ELSE RemoveFirst(@, Head(H.F)), H.g)]

\* for item in F: factors.remove(item); factors.append(g)
eliminate_replace(H) == [H EXCEPT !.factors = Append(RemoveAll(H.factors, H.F), H.g)]

\* one pass of the while loop: z = orderedList.pop(0), the new factor g, the
\* factors that mention z replaced by g
eliminate_one(H, QueryVar) ==
  eliminate_replace(
    eliminate_vals(
      [H EXCEPT !.Fac = Append(H.Fac, Factor_init(H.V, eliminate_scope(H.orderedList, QueryVar))),
                !.orderedList = Tail(H.orderedList),
                !.z = Head(H.orderedList),
                !.g = Len(H.Fac) + 1,
                !.F = <<>>],
      Head(H.orderedList), H.V[Head(H.orderedList)].dom, Len(H.Fac) + 1,
      eliminate_scope(H.orderedList, QueryVar)))

RECURSIVE eliminateZ(_, _)
\* while orderedList
eliminateZ(H, QueryVar) ==
  IF H.orderedList = <<>> THEN H ELSE eliminateZ(eliminate_one(H, QueryVar), QueryVar)

\* the record eliminateZ is entered with
EliminateArgs(Vh, Fh, factors, orderedList) ==
  [V |-> Vh, Fac |-> Fh, factors |-> factors, orderedList |-> orderedList,
   z |-> None, g |-> None, F |-> <<>>]

\* ----------------------------------------------------- min_fill_ordering
RECURSIVE AppendNew(_, _, _)
\* for v in s: if not v in acc and v != skip: acc.append(v)       (skip may be None)
AppendNew(acc, s, skip) ==
  IF s = <<>> THEN acc
  ELSE AppendNew(IF Head(s) \in Range(acc) \/ Head(s) = skip THEN acc ELSE Append(acc, Head(s)),
                 Tail(s), skip)

RECURSIVE ScanVars(_, _, _)
\* Vars: the variables of the scopes other than QueryVar, in first-seen order
ScanVars(scps, QueryVar, acc) ==
  IF scps = <<>> THEN acc
  ELSE ScanVars(Tail(scps), QueryVar, AppendNew(acc, Head(scps), QueryVar))

RECURSIVE FillUnion(_, _, _)
\* for s in scopes: if var in s: for v in s: if not v in union: union.append(v)
FillUnion(scps, var, union) ==
  IF scps = <<>> THEN union
  ELSE FillUnion(Tail(scps), var,
                 IF var \in Range(Head(scps)) THEN AppendNew(union, Head(scps), None)
                 ELSE union)

\* the union of the scopes holding var, without var
compute_fill(scps, var) == RemoveFirst(FillUnion(scps, var, <<>>), var)

min_fill_less_or_equal(min, v, new_scope) ==
  IF Len(new_scope) <= Len(min.new_scope) THEN [var |-> v, new_scope |-> new_scope] ELSE min

\* if fill < minfill: the minimum moves to v
min_fill_less(min, v, new_scope) ==
  IF Len(new_scope) < Len(min.new_scope) THEN [var |-> v, new_scope |-> new_scope] ELSE min

RECURSIVE min_fill_loop(_, _, _)
\* for v in Vars[1:]
min_fill_loop(scps, rest, min) ==
  IF rest = <<>> THEN min
  ELSE min_fill_loop(scps, Tail(rest),
                     min_fill_less(min, Head(rest), compute_fill(scps, Head(rest))))

\* (minv, min_new_scope): the variable of Vars with minimum fill
min_fill_var(scps, vs) ==
  min_fill_loop(scps, Tail(vs), [var |-> vs[1], new_scope |-> compute_fill(scps, vs[1])])

\* the scopes left after eliminating var
remove_var(var, new_scope, scps) ==
  Append(SelectSeq(scps, LAMBDA s : var \notin Range(s)), new_scope)

order_pick_pop(scps, vs, ord, m) ==
  [scopes |-> remove_var(m.var, m.new_scope, scps),
   Vars |-> Tail(vs),
   ordering |-> Append(ord, m.var)]

\* ordering.append(var); if var in Vars: Vars.remove(var); scopes = remove_var(...)
order_pick(scps, vs, ord, m) ==
  [scopes |-> remove_var(m.var, m.new_scope, scps),
   Vars |-> IF m.var \in Range(vs) THEN RemoveFirst(vs, m.var) ELSE vs,
   ordering |-> Append(ord, m.var)]

\* one pass of the while loop of min_fill_ordering
order_one(L) == order_pick(L.scopes, L.Vars, L.ordering, min_fill_var(L.scopes, L.Vars))

RECURSIVE order_loop(_)
\* while Vars
order_loop(L) == IF L.Vars = <<>> THEN L.ordering ELSE order_loop(order_one(L))

\* the scopes of the factors of the list
ScopesOf(Fh, Factors) == [i \in 1..Len(Factors) |-> Fh[Factors[i]].scope]

\* scopes and Vars as the loop is entered
order_start(scps, QueryVar) ==
  [scopes |-> scps, Vars |-> ScanVars(scps, QueryVar, <<>>), ordering |-> <<>>]

min_fill_ordering(Fh, Factors, QueryVar) == order_loop(order_start(ScopesOf(Fh, Factors), QueryVar))

\* ---------------------------------------------------------------------- VE
VE_product_skip_first(H, factors) ==
  [H EXCEPT !.dist = Append(@, ProductAtCurrent(H.V, H.Fac, factors)),
            !.sum = IF H.dist = <<>> THEN @ ELSE @ + ProductAtCurrent(H.V, H.Fac, factors)]

\* product = 1; for f in newFactors: ...; dist.append(product); sum = sum + product
VE_product(H, factors) ==
  [H EXCEPT !.dist = Append(@, ProductAtCurrent(H.V, H.Fac, factors)),
            !.sum = @ + ProductAtCurrent(H.V, H.Fac, factors)]

RECURSIVE VE_products(_, _, _, _)
\* for val in QueryVar.domain(): assign(QueryVar, val, newFactors); product ...
VE_products(H, factors, QueryVar, vals) ==
  IF vals = <<>> THEN H
  ELSE VE_products(VE_product(assigned_in(H, QueryVar, Head(vals), factors), factors),
                   factors, QueryVar, Tail(vals))

\* the record step 3A is entered with: dist = [], sum = 0
ProductArgs(Vh, Fh) == [V |-> Vh, Fac |-> Fh, dist |-> <<>>, sum |-> 0]

\* what a call ends with: the list it returns, or the exception it raises
Returned(d) == [exception |-> "none", dist |-> d]
Raised(e) == [exception |-> e, dist |-> <<>>]

VE_normalize_quiet(d, sum) == Returned([i \in 1..Len(d) |-> <<d[i], sum>>])

\* dist[i] = dist[i] / sum: the exact quotient <<dist[i], sum>>; a division by
\* zero raises ZeroDivisionError and nothing is returned
VE_normalize(d, sum) ==
  IF d # <<>> /\ sum = 0 THEN Raised("ZeroDivisionError")
  ELSE Returned([i \in 1..Len(d) |-> <<d[i], sum>>])

\* steps 3A and 3B on what eliminateZ left
VE_finish(e, QueryVar) ==
  VE_products(ProductArgs(e.V, e.Fac), e.factors, QueryVar, e.V[QueryVar].dom)

VE_result(r) == VE_normalize(r.dist, r.sum)

\* VE from the restricted list on, following the ordering Zs
VE_from(Vh, Fh, factors, QueryVar, Zs) ==
  VE_result(VE_finish(eliminateZ(EliminateArgs(Vh, Fh, factors, Zs), QueryVar), QueryVar))

VE_ordered(r, QueryVar) ==
  VE_from(r.V, r.Fac, r.factors, QueryVar, min_fill_ordering(r.Fac, r.factors, QueryVar))

\* VE(Net, QueryVar, EvidenceVars, min_fill_ordering)
VE_min_fill(Vh, Fh, NetFactors, QueryVar, EvidenceVars) ==
  VE_ordered(restrict([V |-> Vh, Fac |-> Fh, factors |-> NetFactors], EvidenceVars), QueryVar)

\* ------------------------------------------------------- the networks built
Bool == <<"t", "f">>
Tern == <<"lo", "mid", "hi">>

\* the Variable and Factor constructor calls of three small networks:
\* a chain A -> B -> C, a diamond A -> {B, C} -> D, and a ternary X -> Y
\* beside an unconnected W
NetVars(n) ==
  CASE n = 1 -> <<Variable_init("A", Bool), Variable_init("B", Bool), Variable_init("C", Bool)>>
    [] n = 2 -> <<Variable_init("A", Bool), Variable_init("B", Bool), Variable_init("C", Bool),
                  Variable_init("D", Bool)>>
    [] OTHER -> <<Variable_init("X", Tern), Variable_init("Y", Bool), Variable_init("W", Bool)>>

NetScopes(n) ==
  CASE n = 1 -> << <<1>>, <<2, 1>>, <<3, 2>> >>
    [] n = 2 -> << <<1>>, <<2, 1>>, <<3, 1>>, <<4, 2, 3>> >>
    [] OTHER -> << <<1>>, <<2, 1>>, <<3>> >>

Nets == {1, 2, 3}
Seeds == {1, 2}

RECURSIVE TupleAt(_, _, _)
\* the i-th assignment tuple of the scope in the enumeration order of the
\* cross product of the domains (the first variable varies slowest)
TupleAt(Vh, scope, i) ==
  IF scope = <<>> THEN <<>>
  ELSE LET rest == TableSize(Vh, Tail(scope))
       IN <<Vh[Head(scope)].dom[(i \div rest) + 1]>> \o TupleAt(Vh, Tail(scope), i % rest)

\* the number the network's builder gives entry i of factor k: seed 1 fills
\* the tables with positive entries, seed 2 with entries some of which are 0
Entry(s, k, i) ==
  IF s = 1 THEN 1 + ((i + k + (i \div 2)) % MaxVal)
  ELSE (s * i + k + s) % (MaxVal + 1)

\* the rows the builder passes to add_values for factor k
Rows(Vh, scope, s, k) ==
  [i \in 1..TableSize(Vh, scope) |-> Append(TupleAt(Vh, scope, i - 1), Entry(s, k, i - 1))]

BuildFactors(n, s) ==
  [k \in 1..Len(NetScopes(n)) |->
     add_values(NetVars(n), Factor_init(NetVars(n), NetScopes(n)[k]),
                Rows(NetVars(n), NetScopes(n)[k], s, k))]

\* BN(name, Vars, Factors): self.Variables = list(Vars), self.Factors = list(Factors)
BN_init(nVars, nFactors) ==
  [Variables |-> [i \in 1..nVars |-> i], bn |-> [k \in 1..nFactors |-> k], work |-> <<>>]

\* ------------------------------------------------------------------- state
VARIABLES
  V,             \* the Variable objects
  Fac,           \* the Factor objects
  lists,         \* the list objects: Net.Variables, Net.Factors (bn), VE's newFactors (work)
  pc,            \* where the caller / VE stands
  EvidenceVars,  \* the list of evidence variables the caller has built
  QueryVar,      \* VE's argument
  newFactors,    \* VE's local: which list object newFactors refers to
  Z,             \* VE's local: the ordering still to eliminate
  result,        \* VE's outcome: the list it returned, or the exception it raised
  pre,           \* history: the heaps and Net.Factors when VE was called
  step,          \* history: the last pass of eliminateZ
  chosen,        \* history: the list orderingFn returned
  scopes,        \* min_fill_ordering's local
  Vars,          \* min_fill_ordering's local
  ordering,      \* min_fill_ordering's local
  written,       \* history: the number last written for each assignment tuple of a factor
  nWrites,       \* history: how many writes the caller has made to the factor
  lookups,       \* the assignment-driven lookups in flight, each with its position
  csp            \* enforce_gac: the constraints and variables passed, GACQueue, constraint_list2

vars == <<V, Fac, lists, pc, EvidenceVars, QueryVar, newFactors, Z, result, pre, step,
          chosen, scopes, Vars, ordering, written, nWrites, lookups, csp>>

orderVars == <<scopes, Vars, ordering>>

histVars == <<pre, step, chosen>>

factorVars == <<written, nWrites>>

NoStep == [z |-> None, F |-> <<>>, g |-> None, before |-> <<>>, order |-> <<>>]

\* a network has been built and handed to BN(...); no call has been made
Init ==
  \E n \in Nets, s \in Seeds :
    /\ V = NetVars(n)
    /\ Fac = BuildFactors(n, s)
    /\ lists = BN_init(Len(NetVars(n)), Len(NetScopes(n)))
    /\ pc = "idle"
    /\ EvidenceVars = <<>>
    /\ QueryVar = None
    /\ newFactors = "none"
    /\ Z = <<>>
    /\ result = Returned(<<>>)
    /\ pre = [V |-> <<>>, Fac |-> <<>>, bn |-> <<>>, Variables |-> <<>>]
    /\ step = NoStep
    /\ chosen = <<>>
    /\ scopes = <<>>
    /\ Vars = <<>>
    /\ ordering = <<>>
    /\ written = <<>>
    /\ nWrites = 0
    /\ lookups = <<>>
    /\ csp = <<>>

\* the caller observes a variable: v.set_evidence(val), and v joins the list
\* it will pass as EvidenceVars
Observe(v, val) ==
  /\ pc = "idle"
  /\ Len(EvidenceVars) < MaxEvidence
  /\ v \notin Range(EvidenceVars)
  /\ V' = set_evidence(V, v, val)
  /\ EvidenceVars' = Append(EvidenceVars, v)
  /\ UNCHANGED <<Fac, lists, pc, QueryVar, newFactors, Z, result, histVars, orderVars, factorVars, lookups, csp>>

\* the caller leaves an assignment behind: v.set_assignment(val)
SetAssignment(v, val) ==
  /\ pc = "idle"
  /\ V' = set_assignment(V, v, val)
  /\ Cardinality({u \in 1..Len(V) : V'[u].assignment_index # 0}) <= MaxAssign
  /\ UNCHANGED <<Fac, lists, pc, EvidenceVars, QueryVar, newFactors, Z, result, histVars, orderVars, factorVars, lookups, csp>>

\* VE(Net, q, EvidenceVars, orderingFn) is entered: newFactors = Net.factors()
VECall(q) ==
  /\ pc = "idle"
  /\ LET c == BN_factors(lists)
     IN /\ lists' = c.lists
        /\ newFactors' = c.ref
  /\ QueryVar' = q
  /\ pre' = [V |-> V, Fac |-> Fac, bn |-> lists.bn, Variables |-> lists.Variables]
  /\ pc' = "restrict"
  /\ UNCHANGED <<V, Fac, EvidenceVars, Z, result, step, chosen, orderVars, factorVars, lookups, csp>>

\* step 1: restrict(newFactors, EvidenceVars)
VERestrict ==
  /\ pc = "restrict"
  /\ \E r \in {restrict([V |-> V, Fac |-> Fac, factors |-> lists[newFactors]], EvidenceVars)} :
        /\ V' = r.V
        /\ Fac' = r.Fac
        /\ lists' = [lists EXCEPT ![newFactors] = r.factors]
  /\ pc' = "order"
  /\ UNCHANGED <<EvidenceVars, QueryVar, newFactors, Z, result, histVars, orderVars, factorVars, lookups, csp>>

\* the variables an ordering function has to order
ToOrder(Fh, factors, q) == ScanVars(ScopesOf(Fh, factors), q, <<>>)

\* the lists an ordering function may return: the permutations of ToOrder
Orderings(Fh, factors, q) ==
  LET vs == ToOrder(Fh, factors, q)
  IN {[i \in 1..Len(vs) |-> vs[p[i]]] : p \in Permutations(1..Len(vs))}

\* step 2: Z = orderingFn(newFactors, QueryVar), with min_fill_ordering or with
\* any other function of that contract
VEOrder ==
  /\ pc = "order"
  /\ \/ Z' = min_fill_ordering(Fac, lists[newFactors], QueryVar)
     \/ Z' \in Orderings(Fac, lists[newFactors], QueryVar)
  /\ chosen' = Z'
  /\ pc' = "eliminate"
  /\ UNCHANGED <<V, Fac, lists, EvidenceVars, QueryVar, newFactors, result, pre, step, orderVars, factorVars, lookups, csp>>

\* step 2, one pass of eliminateZ's loop
VEEliminate ==
  /\ pc = "eliminate"
  /\ Z # <<>>
  /\ \E r \in {eliminate_one(EliminateArgs(V, Fac, lists[newFactors], Z), QueryVar)} :
        /\ V' = r.V
        /\ Fac' = r.Fac
        /\ lists' = [lists EXCEPT ![newFactors] = r.factors]
        /\ Z' = r.orderedList
        /\ step' = [z |-> r.z, F |-> r.F, g |-> r.g, before |-> lists[newFactors], order |-> Z]
  /\ UNCHANGED <<pc, EvidenceVars, QueryVar, newFactors, result, pre, chosen, orderVars, factorVars, lookups, csp>>

\* step 3: the products for every value of QueryVar, normalized
VEFinish ==
  /\ pc = "eliminate"
  /\ Z = <<>>
  /\ \E r \in {VE_products(ProductArgs(V, Fac), lists[newFactors], QueryVar, V[QueryVar].dom)} :
        /\ V' = r.V
        /\ result' = VE_normalize(r.dist, r.sum)
        /\ pc' = IF result'.exception = "none" THEN "returned" ELSE "raised"
  /\ UNCHANGED <<Fac, lists, EvidenceVars, QueryVar, newFactors, Z, histVars, orderVars, factorVars, lookups, csp>>

Next ==
  \/ \E v \in 1..Len(V) : \E val \in Range(V[v].dom) : Observe(v, val)
  \/ \E v \in 1..Len(V) : \E val \in Range(V[v].dom) : SetAssignment(v, val)
  \/ \E q \in Range(lists.Variables) : VECall(q)
  \/ VERestrict
  \/ VEOrder
  \/ VEEliminate
  \/ VEFinish

Spec == Init /\ [][Next]_vars

\* =========================================================================
\* min_fill_ordering on its own, one pass of its loop at a time, called on any
\* list of factors over the four variables of the diamond network.

\* factors a caller passes
MaxFactors == 2
\* variables in the scope of one of them
MaxScopeLen == 2

\* the scopes a factor is created with: lists of different variables
OrderScopes(Vh) ==
  {s \in UNION {[1..n -> 1..Len(Vh)] : n \in 0..MaxScopeLen} :
     \A i, j \in 1..Len(s) : i # j => s[i] # s[j]}

\* the lists of scopes of the factors passed
OrderScopeLists(Vh) == UNION {[1..n -> OrderScopes(Vh)] : n \in 0..MaxFactors}

\* the factors have been created, Factor("", scope) each, and put in a list
InitOrder ==
  \E sl \in OrderScopeLists(NetVars(2)) :
    /\ V = NetVars(2)
    /\ Fac = [k \in 1..Len(sl) |-> Factor_init(NetVars(2), sl[k])]
    /\ lists = [Variables |-> [i \in 1..Len(NetVars(2)) |-> i], bn |-> <<>>,
                work |-> [k \in 1..Len(sl) |-> k]]
    /\ pc = "idle"
    /\ EvidenceVars = <<>>
    /\ QueryVar = None
    /\ newFactors = "work"
    /\ Z = <<>>
    /\ result = Returned(<<>>)
    /\ pre = [V |-> <<>>, Fac |-> <<>>, bn |-> <<>>, Variables |-> <<>>]
    /\ step = NoStep
    /\ chosen = <<>>
    /\ scopes = <<>>
    /\ Vars = <<>>
    /\ ordering = <<>>
    /\ written = <<>>
    /\ nWrites = 0
    /\ lookups = <<>>
    /\ csp = <<>>

veVars == <<V, Fac, lists, EvidenceVars, newFactors, Z, result, pre, step>>

\* min_fill_ordering(Factors, q) is entered: scopes, Vars and ordering are set up
OrderCall(q) ==
  /\ pc = "idle"
  /\ QueryVar' = q
  /\ \E L \in {order_start(ScopesOf(Fac, lists[newFactors]), q)} :
        /\ scopes' = L.scopes
        /\ Vars' = L.Vars
        /\ ordering' = L.ordering
  /\ pc' = "order_loop"
  /\ UNCHANGED <<veVars, chosen, factorVars, lookups, csp>>

\* one pass of: while Vars
OrderPass ==
  /\ pc = "order_loop"
  /\ Vars # <<>>
  /\ \E L \in {order_one([scopes |-> scopes, Vars |-> Vars, ordering |-> ordering])} :
        /\ scopes' = L.scopes
        /\ Vars' = L.Vars
        /\ ordering' = L.ordering
  /\ UNCHANGED <<veVars, pc, QueryVar, chosen, factorVars, lookups, csp>>

\* the loop is left: return ordering
OrderReturn ==
  /\ pc = "order_loop"
  /\ Vars = <<>>
  /\ chosen' = ordering
  /\ pc' = "order_returned"
  /\ UNCHANGED <<veVars, QueryVar, orderVars, factorVars, lookups, csp>>

NextOrder ==
  \/ \E q \in 1..Len(V) : OrderCall(q)
  \/ OrderPass
  \/ OrderReturn

SpecOrder == InitOrder /\ [][NextOrder]_vars

\* the variables of the scopes of the factors passed
ScopeVars(Fh, factors) == UNION {Range(Fh[factors[i]].scope) : i \in 1..Len(factors)}

\* the list holds every element of S exactly once and nothing else
ListsOnce(l, S) ==
  /\ Range(l) = S
  /\ \A i, j \in 1..Len(l) : i # j => l[i] # l[j]

\* the list returned is complete: every variable of the scopes other than
\* the query variable exactly once, and never the query variable
OrderingComplete ==
  /\ ListsOnce(chosen, ScopeVars(Fac, lists[newFactors]) \ {QueryVar})
  /\ QueryVar \notin Range(chosen)

\* C3: min_fill_ordering(factors, query) terminates: every pass of its loop
\* leaves Vars strictly shorter, and the loop is left when Vars is empty; the
\* list it returns holds every variable of the scopes of the factors other
\* than query exactly once, and never query.
C3_OrderingComplete ==
  [][/\ (pc = "order_loop" /\ pc' = "order_loop") => Len(Vars') < Len(Vars)
     /\ (pc = "order_loop" /\ Vars = <<>>) => pc' = "order_returned"
     /\ pc' = "order_returned" => OrderingComplete']_vars

\* C3 witness: an ordering of three variables has been returned for factors
\* that mention the query variable too
C3_Witness ==
  /\ pc = "order_returned"
  /\ Len(chosen) = 3
  /\ QueryVar \in ScopeVars(Fac, lists[newFactors])

\* =========================================================================
\* A Factor on its own: created over variables of the ternary network, then
\* written through add_values and add_value_at_current_assignment while the
\* caller moves the assignments of the variables.

\* writes a caller makes to the factor
MaxWrites == 2

\* the scopes a factor is created with: lists of different variables
FactorScopes(Vh) ==
  {s \in UNION {[1..n -> 1..Len(Vh)] : n \in 0..Len(Vh)} :
     \A i, j \in 1..Len(s) : i # j => s[i] # s[j]}

RECURSIVE Tuples(_, _)
\* the assignment tuples of a scope: one domain value for each scope variable
Tuples(Vh, scope) ==
  IF scope = <<>> THEN {<<>>}
  ELSE {<<val>> \o t : val \in Range(Vh[Head(scope)].dom), t \in Tuples(Vh, Tail(scope))}

\* the numbers a caller writes: the smallest and the largest positive entry
Numbers == {1, MaxVal}

\* the tuple the scope variables are assigned now
CurrentTuple(Vh, scope) == [k \in 1..Len(scope) |-> get_assignment(Vh[scope[k]])]

\* the history after x has been written for tuple t
Record(w, t, x) == [u \in (DOMAIN w) \cup {t} |-> IF u = t THEN x ELSE w[u]]

RECURSIVE RecordRows(_, _, _)
\* the history after the rows have been written, the first row first
RecordRows(w, rows, n) ==
  IF rows = <<>> THEN w
  ELSE RecordRows(Record(w, SubSeq(Head(rows), 1, n), Head(rows)[n + 1]), Tail(rows), n)

\* Factor("", scope) has been created over the variables X, Y, W
InitFactor ==
  \E s \in FactorScopes(NetVars(3)) :
    /\ V = NetVars(3)
    /\ Fac = <<Factor_init(NetVars(3), s)>>
    /\ lists = [Variables |-> [i \in 1..Len(NetVars(3)) |-> i], bn |-> <<>>, work |-> <<1>>]
    /\ pc = "factor"
    /\ EvidenceVars = <<>>
    /\ QueryVar = None
    /\ newFactors = "work"
    /\ Z = <<>>
    /\ result = Returned(<<>>)
    /\ pre = [V |-> <<>>, Fac |-> <<>>, bn |-> <<>>, Variables |-> <<>>]
    /\ step = NoStep
    /\ chosen = <<>>
    /\ scopes = <<>>
    /\ Vars = <<>>
    /\ ordering = <<>>
    /\ written = <<>>
    /\ nWrites = 0
    /\ lookups = <<>>
    /\ csp = <<>>

callVars == <<lists, pc, EvidenceVars, QueryVar, newFactors, Z, result, histVars, orderVars,
              lookups, csp>>

\* v.set_assignment(val)
FactorSetAssignment(v, val) ==
  /\ pc = "factor"
  /\ V' = set_assignment(V, v, val)
  /\ UNCHANGED <<Fac, callVars, factorVars>>

\* f.add_values(rows)
AddValues(rows) ==
  /\ pc = "factor"
  /\ nWrites < MaxWrites
  /\ Fac' = [Fac EXCEPT ![1] = add_values(V, Fac[1], rows)]
  /\ written' = RecordRows(written, rows, Len(Fac[1].scope))
  /\ nWrites' = nWrites + 1
  /\ UNCHANGED <<V, callVars>>

\* f.add_value_at_current_assignment(x)
AddValueAtCurrent(x) ==
  /\ pc = "factor"
  /\ nWrites < MaxWrites
  /\ Fac' = [Fac EXCEPT ![1] = add_value_at_current_assignment(V, Fac[1], x)]
  /\ written' = Record(written, CurrentTuple(V, Fac[1].scope), x)
  /\ nWrites' = nWrites + 1
  /\ UNCHANGED <<V, callVars>>

\* add_values is passed one row, or the whole table a network builder passes
NextFactor ==
  \/ \E v \in 1..Len(V) : \E val \in Range(V[v].dom) : FactorSetAssignment(v, val)
  \/ \E t \in Tuples(V, Fac[1].scope) : \E x \in Numbers : AddValues(<<Append(t, x)>>)
  \/ \E s \in Seeds : AddValues(Rows(V, Fac[1].scope, s, 1))
  \/ \E x \in Numbers : AddValueAtCurrent(x)

SpecFactor == InitFactor /\ [][NextFactor]_vars

RECURSIVE AssignedTo(_, _, _)
\* the variables after set_assignment on each scope variable, to t's value for it
AssignedTo(Vh, scope, t) ==
  IF scope = <<>> THEN Vh
  ELSE AssignedTo(set_assignment(Vh, Head(scope), Head(t)), Tail(scope), Tail(t))

\* add_values and add_value_at_current_assignment use the same table entry
\* for one tuple of T, and no entry for two tuples
SameEntries(Vh, scope, T) ==
  /\ \A t \in T : RowIndex(Vh, scope, t, 0) = CurrentIndex(AssignedTo(Vh, scope, t), scope, 0)
  /\ Cardinality({RowIndex(Vh, scope, t, 0) : t \in T}) = Cardinality(T)

\* C4: the number last written for an assignment tuple t, by add_values or at
\* the current assignment, is what get_value(t) returns and what
\* get_value_at_current_assignments() returns once the scope variables are
\* assigned to t; the two write paths use the same table entry for one tuple
\* and different entries for different tuples.
C4_IndexingRoundTrip ==
  /\ \A t \in DOMAIN written :
       /\ get_value(V, Fac[1], t) = written[t]
       /\ get_value_at_current_assignments(AssignedTo(V, Fac[1].scope, t), Fac[1]) = written[t]
  /\ SameEntries(V, Fac[1].scope, Tuples(V, Fac[1].scope))

\* C4 witness: a factor over three variables holds different numbers written
\* for two tuples, the later one read back at the current assignment
C4_Witness ==
  /\ pc = "factor"
  /\ Len(Fac[1].scope) = 3
  /\ nWrites = MaxWrites
  /\ \E t1, t2 \in DOMAIN written :
       /\ t1 # t2
       /\ written[t1] # 0 /\ written[t2] # 0 /\ written[t1] # written[t2]
       /\ get_value(V, Fac[1], t1) = written[t1]
       /\ CurrentTuple(V, Fac[1].scope) = t2
       /\ get_value_at_current_assignments(V, Fac[1]) = written[t2]

\* the variables with every choice of assignments
Reassigned(Vh) ==
  {[v \in 1..Len(Vh) |-> set_assignment(Vh, v, a[v])[v]] :
     a \in {b \in [1..Len(Vh) -> UNION {Range(Vh[v].dom) : v \in 1..Len(Vh)}] :
              \A v \in 1..Len(Vh) : b[v] \in Range(Vh[v].dom)}}

\* C9: after any writes, the table of every factor has as many entries as
\* there are assignment tuples of its scope (the product of the domain sizes);
\* a factor with empty scope has one entry, and get_value([]) returns it, the
\* number last written, whatever the variables are assigned.
C9_TableSize ==
  \A k \in 1..Len(Fac) :
    /\ Len(Fac[k].values) = Cardinality(Tuples(V, Fac[k].scope))
    /\ Fac[k].scope = <<>> =>
         /\ Len(Fac[k].values) = 1
         /\ \A Vh \in Reassigned(V) :
              /\ get_value(Vh, Fac[k], <<>>) = Fac[k].values[1]
              /\ <<>> \in DOMAIN written => get_value(Vh, Fac[k], <<>>) = written[<<>>]

\* C9 witness: a factor with empty scope has been written twice while a
\* variable is assigned away from its first value
C9_Witness ==
  /\ pc = "factor"
  /\ Fac[1].scope = <<>>
  /\ nWrites = MaxWrites
  /\ <<>> \in DOMAIN written
  /\ written[<<>>] # 0
  /\ \E v \in 1..Len(V) : V[v].assignment_index # 0

\* ------------------------------------------- brute-force marginalization
RECURSIVE PositionsAt(_, _, _)
\* the i-th joint assignment of the variables vs, as domain positions
PositionsAt(Vh, vs, i) ==
  IF vs = <<>> THEN <<>>
  ELSE LET rest == TableSize(Vh, Tail(vs))
       IN <<i \div rest>> \o PositionsAt(Vh, Tail(vs), i % rest)

RECURSIVE EntryAt(_, _, _, _)
\* the table position of the factor's entry for the joint assignment a
EntryAt(Vh, scope, a, index) ==
  IF scope = <<>> THEN index
  ELSE EntryAt(Vh, Tail(scope), a, index * Len(Vh[Head(scope)].dom) + a[Head(scope)])

RECURSIVE JointWeight(_, _, _, _)
\* the product of the entries of all the factors at the joint assignment a
JointWeight(Vh, Fh, factors, a) ==
  IF factors = <<>> THEN 1
  ELSE Fh[Head(factors)].values[EntryAt(Vh, Fh[Head(factors)].scope, a, 0) + 1]
         * JointWeight(Vh, Fh, Tail(factors), a)

RECURSIVE BruteSum(_, _, _, _, _, _, _)
\* the sum, over the joint assignments i..last that agree with the evidence and
\* give q the position qpos, of the joint weight
BruteSum(Vh, Fh, factors, q, qpos, E, i) ==
  IF i < 0 THEN 0
  ELSE LET a == PositionsAt(Vh, [k \in 1..Len(Vh) |-> k], i)
           agrees == a[q] = qpos /\ \A k \in 1..Len(E) : a[E[k]] = Vh[E[k]].evidence_index
       IN (IF agrees THEN JointWeight(Vh, Fh, factors, a) ELSE 0)
            + BruteSum(Vh, Fh, factors, q, qpos, E, i - 1)

\* the unnormalized posterior of q by enumeration of every joint assignment
BruteForce(Vh, Fh, factors, q, E) ==
  [i \in 1..Len(Vh[q].dom) |->
     BruteSum(Vh, Fh, factors, q, i - 1, E, TableSize(Vh, [k \in 1..Len(Vh) |-> k]) - 1)]

\* the same for the call VE is in, from the state the call was made in
Brute == BruteForce(pre.V, pre.Fac, pre.bn, QueryVar, EvidenceVars)

Ended == pc \in {"returned", "raised"}

\* two exact quotients are the same number
SameQuotient(x, y) == x[1] * y[2] = y[1] * x[2]

\* the returned list is the posterior whose unnormalized entries are b
Matches(b) ==
  /\ pc = "returned"
  /\ Len(result.dist) = Len(b)
  /\ \A i \in 1..Len(b) : SameQuotient(result.dist[i], <<b[i], SumSeq(b)>>)

\* the evidence has nonzero probability, and then the list is the posterior
MatchesIfPossible(b) == SumSeq(b) > 0 => Matches(b)

\* C1, as stated: whenever VE has ended on evidence of nonzero probability, it
\* has returned the posterior brute-force marginalization gives, for every
\* network, query variable, evidence list and prior assignment_index values.
C1_AsStated == Ended => MatchesIfPossible(Brute)

\* C1, amended: the same, for a query variable that is not itself one of the
\* evidence variables.
C1_MatchesBruteForce ==
  (Ended /\ QueryVar \notin Range(EvidenceVars)) => MatchesIfPossible(Brute)

\* C1 witness: VE returned a non-uniform posterior on evidence, entered with an
\* assignment_index left away from 0
C1_Witness ==
  /\ pc = "returned"
  /\ EvidenceVars # <<>>
  /\ QueryVar \notin Range(EvidenceVars)
  /\ \E v \in 1..Len(pre.V) : pre.V[v].assignment_index # 0
  /\ result.dist[1] # result.dist[2]
  /\ Matches(Brute)

\* the list has one entry per value of the query variable, every entry is a
\* non-negative quotient, and the entries sum to 1
IsDistribution(d) ==
  /\ Len(d) = domain_size(V[QueryVar])
  /\ \A i \in 1..Len(d) : d[i][1] >= 0 /\ d[i][2] > 0 /\ d[i][2] = d[1][2]
  /\ SumSeq([i \in 1..Len(d) |-> d[i][1]]) = d[1][2]

\* C2: VE, ended on evidence of nonzero probability, has returned one entry per
\* value of the query variable's domain, every entry a non-negative quotient,
\* and the entries sum to 1.
C2_Normalized ==
  (Ended /\ SumSeq(Brute) > 0) => (pc = "returned" /\ IsDistribution(result.dist))

\* C2 witness: a returned distribution over a three-valued query variable
C2_Witness ==
  /\ pc = "returned"
  /\ Len(result.dist) = 3
  /\ \E i \in 1..3 : result.dist[i][1] > 0 /\ result.dist[i][1] < result.dist[i][2]
  /\ SumSeq(Brute) > 0

\* C7: VE, ended on evidence of zero probability (every unnormalized entry is
\* zero), has raised an exception and returned no list.
C7_ZeroEvidenceRaises ==
  (Ended /\ SumSeq(Brute) = 0) =>
     (pc = "raised" /\ result.exception = "ZeroDivisionError" /\ result.dist = <<>>)

\* C7 witness: a call on evidence of zero probability has ended
C7_Witness == pc = "raised" /\ EvidenceVars # <<>> /\ SumSeq(Brute) = 0

\* the working list VE holds, with the heaps, as restrict takes it
Working == [V |-> V, Fac |-> Fac, factors |-> lists[newFactors]]

\* no factor of the list mentions a variable of E
MentionsNone(Fh, factors, E) ==
  \A i \in 1..Len(factors) : Range(Fh[factors[i]].scope) \cap Range(E) = {}

\* a run of restrict that began in H and ended in r left the list and every
\* factor object as they were, and created no factor
SameList(H, r) == r.factors = H.factors /\ r.Fac = H.Fac

\* C5: once restrict(factors, E) has run, no factor of the working list
\* mentions an evidence variable, and running restrict(factors, E) again with
\* the same evidence leaves the list unchanged: the same factor objects at the
\* same positions, with the same tables.
C5_RestrictIdempotent ==
  pc = "order" =>
     /\ MentionsNone(Fac, lists[newFactors], EvidenceVars)
     /\ SameList(Working, restrict(Working, EvidenceVars))

\* C5 witness: restrict has run and replaced a factor that mentioned two
\* evidence variables
C5_Witness ==
  /\ pc = "order"
  /\ Len(EvidenceVars) = 2
  /\ \E i \in 1..Len(pre.bn) :
        /\ Range(EvidenceVars) \subseteq Range(pre.Fac[pre.bn[i]].scope)
        /\ lists[newFactors][i] # pre.bn[i]

\* C6: from the call on, VE leaves the BN as it was: Net.Factors holds the same
\* factor objects in the same order, each with the scope and table it had, and
\* Net.Variables, the variables' domains and their evidence_index are unchanged.
C6_NetUnchanged ==
  pc # "idle" =>
     /\ lists.bn = pre.bn
     /\ \A i \in 1..Len(pre.bn) : Fac[pre.bn[i]] = pre.Fac[pre.bn[i]]
     /\ lists.Variables = pre.Variables
     /\ Len(V) = Len(pre.V)
     /\ \A v \in 1..Len(pre.V) :
           V[v].dom = pre.V[v].dom /\ V[v].evidence_index = pre.V[v].evidence_index

\* C6 witness: VE has returned after replacing and removing factors of its
\* working list
C6_Witness ==
  /\ pc = "returned"
  /\ EvidenceVars # <<>>
  /\ chosen # <<>>
  /\ lists.work # lists.bn
  /\ Len(Fac) > Len(pre.Fac)

\* the outcome is the outcome o: the same exception, or the same posterior
SameOutcome(o) ==
  /\ result.exception = o.exception
  /\ Len(result.dist) = Len(o.dist)
  /\ \A i \in 1..Len(o.dist) : SameQuotient(result.dist[i], o.dist[i])

\* what VE with min_fill_ordering gives from the state the call was made in
MinFillOutcome == VE_min_fill(pre.V, pre.Fac, pre.bn, QueryVar, EvidenceVars)

\* C8: whatever permutation of the non-query variables of the restricted
\* factors the ordering function returned, VE ends as VE with
\* min_fill_ordering ends: with the same posterior.
C8_OrderingIrrelevant == Ended => SameOutcome(MinFillOutcome)

\* the ordering min_fill_ordering gives for the call VE is in
MinFillChoice(r) == min_fill_ordering(r.Fac, r.factors, QueryVar)

\* C8 witness: VE returned a non-uniform posterior after eliminating three
\* variables in an order that is not min-fill's
C8_Witness ==
  /\ pc = "returned"
  /\ Len(chosen) = 3
  /\ result.dist[1] # result.dist[2]
  /\ chosen # MinFillChoice(restrict([V |-> pre.V, Fac |-> pre.Fac, factors |-> pre.bn],
                                     EvidenceVars))

\* the variables of the scopes of the factors of the list that mention z
UnionOfMentioning(Fh, factors, z) ==
  UNION {Range(Fh[factors[i]].scope) : i \in {j \in 1..Len(factors) : z \in Range(Fh[factors[j]].scope)}}

Mentioning(Fh, factors, z) == SelectSeq(factors, LAMBDA k : z \in Range(Fh[k].scope))

\* the factors of the list whose scope does not hold z, in the order of the list
NotMentioning(Fh, factors, z) == SelectSeq(factors, LAMBDA k : z \notin Range(Fh[k].scope))

\* the joint assignment that gives the variables of scope the positions of the
\* i-th assignment tuple of scope (and the first position to every other one)
JointAt(Vh, scope, i) ==
  [v \in 1..Len(Vh) |->
     IF v \in Range(scope)
     THEN PositionsAt(Vh, scope, i)[CHOOSE k \in 1..Len(scope) : scope[k] = v]
     ELSE 0]

RECURSIVE SumOverZ(_, _, _, _, _, _)
\* the sum, over the positions 0..zpos of z, of the product of the factors F at
\* the joint assignment a with z at that position
SumOverZ(Vh, Fh, F, z, a, zpos) ==
  IF zpos < 0 THEN 0
  ELSE JointWeight(Vh, Fh, F, [a EXCEPT ![z] = zpos]) + SumOverZ(Vh, Fh, F, z, a, zpos - 1)

\* the table of the factor g2 is the sum over z of the product of the factors F
SumsOut(Vh, Fh, F, z, g2) ==
  \A i \in 1..Len(g2.values) :
    g2.values[i] = SumOverZ(Vh, Fh, F, z, JointAt(Vh, g2.scope, i - 1), Len(Vh[z].dom) - 1)

\* what a pass of eliminateZ that began with the heaps Vh, Fh, the list factors
\* and the ordering order has to leave: the heap Fh2, the list factors2 and
\* the ordering order2
EliminationStep(Vh, Fh, factors, order, Fh2, factors2, order2, F) ==
  /\ order2 = Tail(order)
  /\ Len(Fh2) = Len(Fh) + 1
  /\ \A k \in 1..Len(Fh) : Fh2[k] = Fh[k]
  /\ factors2 = Append(NotMentioning(Fh, factors, Head(order)), Len(Fh2))
  /\ \A k \in 1..Len(F) : Range(Fh[F[k]].scope) \subseteq Range(Fh2[Len(Fh2)].scope) \cup {Head(order)}
  /\ SumsOut(Vh, Fh, F, Head(order), Fh2[Len(Fh2)])

\* C11: a pass of eliminateZ takes the first variable z of the ordering left,
\* removes from the working list exactly the factors whose scope mentions z,
\* leaves every other factor as it was, and appends one new factor g whose
\* entry for every assignment of its scope is the sum over the values of z of
\* the product of the removed factors; afterwards no factor of the list
\* mentions z or a variable eliminated earlier.
C11_EliminationStep ==
  [][(pc = "eliminate" /\ Z # <<>>) =>
       /\ step'.z = Head(Z)
       /\ step'.F = Mentioning(Fac, lists[newFactors], Head(Z))
       /\ EliminationStep(V, Fac, lists[newFactors], Z, Fac', lists'[newFactors], Z', step'.F)
       /\ \A i \in 1..Len(lists'[newFactors]) :
            Range(Fac'[lists'[newFactors][i]].scope) \cap (Range(chosen) \ Range(Z')) = {}]_vars

\* C11 witness: the second pass has removed two factors, left another in the
\* list and appended a factor with a positive entry
C11_Witness ==
  /\ pc = "eliminate"
  /\ step.g # None
  /\ Len(chosen) - Len(Z) >= 2
  /\ Len(step.F) >= 2
  /\ Len(step.before) > Len(step.F)
  /\ \E i \in 1..Len(Fac[step.g].values) : Fac[step.g].values[i] > 0

\* ---------------------------------------------------- what restrict leaves
\* the scope without the variables of E, in the same order
WithoutEvidence(scope, E) == SelectSeq(scope, LAMBDA v : v \notin Range(E))

\* the joint assignment a with every variable of E at its evidence value
AtEvidence(Vh, a, E) ==
  [v \in 1..Len(Vh) |-> IF v \in Range(E) THEN Vh[v].evidence_index ELSE a[v]]

\* g's entry for every assignment of its scope is f's entry at that
\* assignment with the variables of E at their evidence values
RestrictionOf(Vh, g, f, E) ==
  /\ g.scope = WithoutEvidence(f.scope, E)
  /\ Len(g.values) = TableSize(Vh, g.scope)
  /\ \A i \in 1..Len(g.values) :
       g.values[i] = f.values[EntryAt(Vh, f.scope, AtEvidence(Vh, JointAt(Vh, g.scope, i - 1), E), 0) + 1]

\* what restrict(factors, E), begun with the heap Fh and the list factors, has
\* to leave: the heap Fh2 and the list factors2
Restriction(Vh, Fh, factors, E, Fh2, factors2) ==
  /\ Len(factors2) = Len(factors)
  /\ Len(Fh2) >= Len(Fh)
  /\ \A k \in 1..Len(Fh) : Fh2[k] = Fh[k]
  /\ \A i \in 1..Len(factors) :
       IF Range(Fh[factors[i]].scope) \cap Range(E) = {}
       THEN factors2[i] = factors[i]
       ELSE /\ factors2[i] > Len(Fh)
            /\ RestrictionOf(Vh, Fh2[factors2[i]], Fh[factors[i]], E)
  /\ MentionsNone(Fh2, factors2, E)

\* C12: restrict(factors, E) puts, at the same position of the list, in place
\* of every factor f whose scope holds an evidence variable a new factor g
\* whose scope is f's scope without the evidence variables, in the same order,
\* and whose entries are f's entries with the evidence variables at their
\* evidence values; a factor that mentions no evidence variable stays the same
\* object with the same table; afterwards no scope holds an evidence variable.
C12_RestrictReplaces ==
  [][pc = "restrict" =>
       Restriction(V, Fac, lists[newFactors], EvidenceVars, Fac', lists'[newFactors])]_vars

\* C12 witness: restrict has replaced a factor by one over a variable left and
\* has kept another factor of the net in its place
C12_Witness ==
  /\ pc = "order"
  /\ EvidenceVars # <<>>
  /\ \E i, j \in 1..Len(lists.bn) :
       /\ lists[newFactors][i] # lists.bn[i]
       /\ Fac[lists[newFactors][i]].scope # <<>>
       /\ Fac[lists[newFactors][i]].scope # Fac[lists.bn[i]].scope
       /\ \E k \in 1..Len(Fac[lists[newFactors][i]].values) : Fac[lists[newFactors][i]].values[k] > 0
       /\ lists[newFactors][j] = lists.bn[j]

\* ------------------------------------------------- the min-fill choice
\* the fill set of v: the variables other than v of the scopes that hold v
FillSet(scps, v) ==
  UNION {Range(scps[i]) : i \in {j \in 1..Len(scps) : v \in Range(scps[j])}} \ {v}

\* the fill cost of v
FillCost(scps, v) == Cardinality(FillSet(scps, v))

\* v has the minimum fill cost among the variables of vs, and is the earliest
\* of vs with that cost
EarliestMinimum(scps, vs, v) ==
  \E k \in 1..Len(vs) :
    /\ vs[k] = v
    /\ \A j \in 1..Len(vs) : FillCost(scps, v) <= FillCost(scps, vs[j])
    /\ \A j \in 1..(k - 1) : FillCost(scps, v) < FillCost(scps, vs[j])

\* what a pass that began with scps, vs and ord has to leave when it selects v
MinFillStep(scps, vs, ord, scps2, vs2, ord2, v) ==
  /\ ord2 = Append(ord, v)
  /\ EarliestMinimum(scps, vs, v)
  /\ vs2 = SelectSeq(vs, LAMBDA u : u # v)
  /\ Len(scps2) = Len(SelectSeq(scps, LAMBDA sc : v \notin Range(sc))) + 1
  /\ SubSeq(scps2, 1, Len(scps2) - 1) = SelectSeq(scps, LAMBDA sc : v \notin Range(sc))
  /\ Range(scps2[Len(scps2)]) = FillSet(scps, v)
  /\ Len(scps2[Len(scps2)]) = FillCost(scps, v)

\* C13: every pass of min_fill_ordering appends the variable of minimum fill
\* cost among the remaining variables, the earliest of them in the remaining
\* order when several have that cost; the fill cost of v counts the variables
\* other than v of the working scopes that hold v, and the pass replaces those
\* scopes by one scope, v's fill set, and takes v out of the remaining variables.
C13_MinFillChoice ==
  [][(pc = "order_loop" /\ Vars # <<>>) =>
       /\ ordering' # <<>>
       /\ MinFillStep(scopes, Vars, ordering, scopes', Vars', ordering',
                      ordering'[Len(ordering')])]_vars

\* C13 witness: several variables have been ordered, and the first one
\* selected was not the first variable seen in the scopes
C13_Witness ==
  /\ pc = "order_returned"
  /\ Len(chosen) >= 2
  /\ chosen[1] # ScanVars(ScopesOf(Fac, lists[newFactors]), QueryVar, <<>>)[1]
  /\ \E i \in 1..Len(lists[newFactors]) : QueryVar \in Range(Fac[lists[newFactors][i]].scope)

\* =========================================================================
\* A Variable on its own: created with any domain, the empty one included,
\* then used through its own operations.

\* values in a domain
MaxDomain == 2

\* the domains a caller passes, and the lists it passes to add_domain_values
Domains(n) == UNION {[1..k -> Range(Tern)] : k \in 0..n}

\* the indexes a caller passes to set_assignment_index
Indexes == (0 - 1)..MaxDomain

\* Variable("X", domain) has been created
InitVariable ==
  \E d \in Domains(MaxDomain) :
    /\ V = <<Variable_init("X", d)>>
    /\ Fac = <<>>
    /\ lists = [Variables |-> <<1>>, bn |-> <<>>, work |-> <<>>]
    /\ pc = "variable"
    /\ EvidenceVars = <<>>
    /\ QueryVar = None
    /\ newFactors = "work"
    /\ Z = <<>>
    /\ result = Returned(<<>>)
    /\ pre = [V |-> <<>>, Fac |-> <<>>, bn |-> <<>>, Variables |-> <<>>]
    /\ step = NoStep
    /\ chosen = <<>>
    /\ scopes = <<>>
    /\ Vars = <<>>
    /\ ordering = <<>>
    /\ written = <<>>
    /\ nWrites = 0
    /\ lookups = <<>>
    /\ csp = <<>>

restVars == <<Fac, lists, pc, EvidenceVars, QueryVar, newFactors, Z, histVars, orderVars,
              factorVars, lookups, csp>>

\* how a call of set_evidence or set_assignment with val ends
ValueOutcome(var, val) ==
  IF value_index(var, val) = ValueError THEN Raised("ValueError") ELSE Returned(<<>>)

\* v.add_domain_values(values)
AddDomainValues(v, values) ==
  /\ pc = "variable"
  /\ Len(V[v].dom) + Len(values) <= MaxDomain
  /\ V' = add_domain_values(V, v, values)
  /\ result' = Returned(<<>>)
  /\ UNCHANGED restVars

\* v.set_evidence(val), for any val
VarSetEvidence(v, val) ==
  /\ pc = "variable"
  /\ V' = set_evidence(V, v, val)
  /\ result' = ValueOutcome(V[v], val)
  /\ UNCHANGED restVars

\* v.set_assignment(val), for any val
VarSetAssignment(v, val) ==
  /\ pc = "variable"
  /\ V' = set_assignment(V, v, val)
  /\ result' = ValueOutcome(V[v], val)
  /\ UNCHANGED restVars

\* v.set_assignment_index(index)
SetAssignmentIndex(v, index) ==
  /\ pc = "variable"
  /\ V' = set_assignment_index(V, v, index)
  /\ result' = Returned(<<>>)
  /\ UNCHANGED restVars

NextVariable ==
  \/ \E v \in 1..Len(V) : \E values \in Domains(MaxDomain) : AddDomainValues(v, values)
  \/ \E v \in 1..Len(V) : \E val \in Range(Tern) : VarSetEvidence(v, val)
  \/ \E v \in 1..Len(V) : \E val \in Range(Tern) : VarSetAssignment(v, val)
  \/ \E v \in 1..Len(V) : \E index \in Indexes : SetAssignmentIndex(v, index)

SpecVariable == InitVariable /\ [][NextVariable]_vars

\* index is a position of var's domain
ValidIndex(var, index) == 0 <= index /\ index < domain_size(var)

\* C14, as stated: after construction and after any of its operations, the
\* evidence_index and the assignment_index of every Variable are positions of
\* its domain: 0 <= index < domain_size().
C14_AsStated ==
  \A v \in 1..Len(V) :
    ValidIndex(V[v], V[v].evidence_index) /\ ValidIndex(V[v], V[v].assignment_index)

\* C14 witness: a variable with a domain of two values holds an
\* assignment_index past the end of the domain and an evidence_index away from 0
C14_Witness ==
  /\ pc = "variable"
  /\ domain_size(V[1]) = 2
  /\ V[1].evidence_index = 1
  /\ V[1].assignment_index >= domain_size(V[1])

\* =========================================================================
\* restrict and assign called on factors over two different Variable objects
\* that were created with the same name.

\* Variable("A", ...) twice, and Variable("B", ...)
NameVars == <<Variable_init("A", Bool), Variable_init("A", Bool), Variable_init("B", Bool)>>

\* a factor over each variable called "A", and one over B and the second of them
NameScopes == << <<1>>, <<2>>, <<3, 2>> >>

InitNames ==
  \E s \in Seeds :
    /\ V = NameVars
    /\ Fac = [k \in 1..Len(NameScopes) |->
                add_values(NameVars, Factor_init(NameVars, NameScopes[k]),
                           Rows(NameVars, NameScopes[k], s, k))]
    /\ lists = [Variables |-> [i \in 1..Len(NameVars) |-> i], bn |-> <<>>,
                work |-> [k \in 1..Len(NameScopes) |-> k]]
    /\ pc = "names"
    /\ EvidenceVars = <<>>
    /\ QueryVar = None
    /\ newFactors = "work"
    /\ Z = <<>>
    /\ result = Returned(<<>>)
    /\ pre = [V |-> <<>>, Fac |-> <<>>, bn |-> <<>>, Variables |-> <<>>]
    /\ step = NoStep
    /\ chosen = <<>>
    /\ scopes = <<>>
    /\ Vars = <<>>
    /\ ordering = <<>>
    /\ written = <<>>
    /\ nWrites = 0
    /\ lookups = <<>>
    /\ csp = <<>>

\* the caller observes a variable: v.set_evidence(val), and v joins the list
\* it will pass as EvidenceVars
NamesObserve(v, val) ==
  /\ pc = "names"
  /\ Len(EvidenceVars) < MaxEvidence
  /\ v \notin Range(EvidenceVars)
  /\ V' = set_evidence(V, v, val)
  /\ EvidenceVars' = Append(EvidenceVars, v)
  /\ UNCHANGED <<Fac, lists, pc, QueryVar, newFactors, Z, result, histVars, orderVars, factorVars, lookups, csp>>

\* v.set_assignment(val)
NamesSetAssignment(v, val) ==
  /\ pc = "names"
  /\ V' = set_assignment(V, v, val)
  /\ UNCHANGED <<Fac, lists, pc, EvidenceVars, QueryVar, newFactors, Z, result, histVars,
                 orderVars, factorVars, lookups, csp>>

\* restrict(factors, EvidenceVars)
NamesRestrict ==
  /\ pc = "names"
  /\ EvidenceVars # <<>>
  /\ \E r \in {restrict([V |-> V, Fac |-> Fac, factors |-> lists[newFactors]], EvidenceVars)} :
        /\ V' = r.V
        /\ Fac' = r.Fac
        /\ lists' = [lists EXCEPT ![newFactors] = r.factors]
  /\ pre' = [V |-> V, Fac |-> Fac, bn |-> lists[newFactors], Variables |-> lists.Variables]
  /\ pc' = "restricted"
  /\ UNCHANGED <<EvidenceVars, QueryVar, newFactors, Z, result, step, chosen, orderVars, factorVars, lookups, csp>>

\* assign(var, val, factors); step keeps var and the list returned
NamesAssign(var, val) ==
  /\ pc = "names"
  /\ \E r \in {assign(V, Fac, var, val, lists[newFactors])} :
        /\ V' = r.V
        /\ step' = [NoStep EXCEPT !.z = var, !.F = r.assigned, !.before = lists[newFactors]]
  /\ pre' = [V |-> V, Fac |-> Fac, bn |-> lists[newFactors], Variables |-> lists.Variables]
  /\ pc' = "assigned"
  /\ UNCHANGED <<Fac, lists, EvidenceVars, QueryVar, newFactors, Z, result, chosen, orderVars,
                 factorVars, lookups, csp>>

NextNames ==
  \/ \E v \in 1..Len(V) : \E val \in Range(V[v].dom) : NamesObserve(v, val)
  \/ \E v \in 1..Len(V) : \E val \in Range(V[v].dom) : NamesSetAssignment(v, val)
  \/ NamesRestrict
  \/ \E var \in 1..Len(V) : \E val \in Range(V[var].dom) : NamesAssign(var, val)

SpecNames == InitNames /\ [][NextNames]_vars

\* C15, as stated: two Variable objects with the same name are different
\* variables. restrict takes out of every scope the evidence variables and no
\* other variable; assign(var, ...) returns the factors whose scope holds var
\* itself and changes the assignment_index of no other variable.
C15_AsStated ==
  /\ pc = "restricted" =>
       \A i \in 1..Len(pre.bn) :
         Range(Fac[lists[newFactors][i]].scope)
           = Range(pre.Fac[pre.bn[i]].scope) \ Range(EvidenceVars)
  /\ pc = "assigned" =>
       /\ step.F = Mentioning(Fac, step.before, step.z)
       /\ \A u \in 1..Len(V) :
            u # step.z => V[u].assignment_index = pre.V[u].assignment_index

\* C15 witness: restrict, passed the first variable called "A" alone, has
\* taken the second one out of the scope of the factor over it and B
C15_Witness ==
  /\ pc = "restricted"
  /\ EvidenceVars = <<1>>
  /\ pre.Fac[pre.bn[3]].scope = <<3, 2>>
  /\ Fac[lists[newFactors][3]].scope = <<3>>

\* =========================================================================
\* Two assignment-driven lookups over the factors of the chain network: each
\* sets the assignment of the variables of its factor's scope, one after the
\* other, for the tuple it wants, then calls get_value_at_current_assignments.
\* Their steps are taken in any order; nothing in the code keeps them apart.

Lookups == {1, 2}

\* a lookup that has not begun: factor f, tuple t, next scope position k
NewLookup(f, t) ==
  [f |-> f, t |-> t, k |-> 1, done |-> FALSE, overlapped |-> FALSE, index |-> None, value |-> None]

\* the lookup has set an assignment and has not read yet
InFlight(l) == l.k > 1 /\ l.done = FALSE

InitLookup ==
  \E s \in Seeds :
    \E f1, f2 \in 1..Len(NetScopes(1)) :
      \E t1 \in Tuples(NetVars(1), NetScopes(1)[f1]) :
        \E t2 \in Tuples(NetVars(1), NetScopes(1)[f2]) :
          /\ V = NetVars(1)
          /\ Fac = BuildFactors(1, s)
          /\ lists = BN_init(Len(NetVars(1)), Len(NetScopes(1)))
          /\ pc = "lookup"
          /\ EvidenceVars = <<>>
          /\ QueryVar = None
          /\ newFactors = "none"
          /\ Z = <<>>
          /\ result = Returned(<<>>)
          /\ pre = [V |-> <<>>, Fac |-> <<>>, bn |-> <<>>, Variables |-> <<>>]
          /\ step = NoStep
          /\ chosen = <<>>
          /\ scopes = <<>>
          /\ Vars = <<>>
          /\ ordering = <<>>
          /\ written = <<>>
          /\ nWrites = 0
          /\ lookups = <<NewLookup(f1, t1), NewLookup(f2, t2)>>
          /\ csp = <<>>

\* the lookups after a step of p that leaves p as l: a lookup in flight during
\* the step of another has been overlapped, and so has the one that stepped
AfterStep(p, l) ==
  [q \in Lookups |->
     IF q = p
     THEN [l EXCEPT !.overlapped = @ \/ (\E o \in Lookups \ {p} : InFlight(lookups[o]))]
     ELSE [lookups[q] EXCEPT !.overlapped = @ \/ InFlight(lookups[q])]]

\* lookup p: var.set_assignment(val) for the next variable of the scope
LookupSet(p) ==
  /\ pc = "lookup"
  /\ lookups[p].done = FALSE
  /\ lookups[p].k <= Len(Fac[lookups[p].f].scope)
  /\ V' = set_assignment(V, Fac[lookups[p].f].scope[lookups[p].k], lookups[p].t[lookups[p].k])
  /\ lookups' = AfterStep(p, [lookups[p] EXCEPT !.k = @ + 1])
  /\ UNCHANGED <<Fac, lists, pc, EvidenceVars, QueryVar, newFactors, Z, result, histVars,
                 orderVars, factorVars, csp>>

\* lookup p: f.get_value_at_current_assignments(); index keeps the entry read
LookupRead(p) ==
  /\ pc = "lookup"
  /\ lookups[p].done = FALSE
  /\ lookups[p].k > Len(Fac[lookups[p].f].scope)
  /\ lookups' = AfterStep(p, [lookups[p] EXCEPT
                                !.done = TRUE,
                                !.index = CurrentIndex(V, Fac[lookups[p].f].scope, 0),
                                !.value = get_value_at_current_assignments(V, Fac[lookups[p].f])])
  /\ UNCHANGED <<V, Fac, lists, pc, EvidenceVars, QueryVar, newFactors, Z, result, histVars,
                 orderVars, factorVars, csp>>

NextLookup ==
  \/ \E p \in Lookups : LookupSet(p)
  \/ \E p \in Lookups : LookupRead(p)

SpecLookup == InitLookup /\ [][NextLookup]_vars

\* the lookup has read the entry of the tuple it set
ReadOwn(l) ==
  /\ l.index = RowIndex(V, Fac[l.f].scope, l.t, 0)
  /\ l.value = get_value(V, Fac[l.f], l.t)

\* C16: a lookup whose steps, from its first set_assignment to its read, ran
\* with no step of the other lookup in between and outside the other's own
\* steps (strict sequencing) has read the entry of the assignment it set.
\* That interleaved steps can make a lookup read the entry of an assignment
\* it did not set is the state C16_Witness describes.
C16_SequencedReadsOwn ==
  pc = "lookup" =>
     \A p \in Lookups :
       (lookups[p].done /\ lookups[p].overlapped = FALSE) => ReadOwn(lookups[p])

\* C16 witness: the two lookups are over factors that share a variable, their
\* steps interleaved, and one has read the entry of an assignment it did not set
C16_Witness ==
  /\ pc = "lookup"
  /\ Range(Fac[lookups[1].f].scope) \cap Range(Fac[lookups[2].f].scope) # {}
  /\ \E p \in Lookups :
       /\ lookups[p].done
       /\ lookups[p].overlapped
       /\ lookups[p].index # RowIndex(V, Fac[lookups[p].f].scope, lookups[p].t, 0)

\* ---------------------------------------------------------------------------
\* sudoku_csp.py: enforce_gac over the constraints of a row of cells
\* ---------------------------------------------------------------------------

\* digits of a cell: 1..MaxDigit (1..9 in create_variables)
MaxDigit == 2

\* longest constraint_list passed to enforce_gac
MaxConstraints == 2

\* the cells of one row of the board
Cells == 1..3

\* the row of the board: 0 for an empty cell, a digit for a pre-set one
Boards == [Cells -> 0..MaxDigit]

\* create_variables: domain [1..MaxDigit] for an empty cell, [col] otherwise
create_variables(board) ==
  [c \in Cells |-> IF board[c] = 0 THEN [d \in 1..MaxDigit |-> d] ELSE <<board[c]>>]

\* Variable.cur_domain(): the values of the variable not pruned so far
cur_domain(cur, var) == cur[var]

\* Variable.prune_value(val): val leaves the current domain of var
prune_value(cur, var, val) ==
  [cur EXCEPT ![var] = SelectSeq(@, LAMBDA x : x # val)]

\* create_constraints: a NOT-EQUAL constraint over cells i < j, its satisfying
\* tuples the pairs of different values of the two current domains
NotEqual(cur, i, j) ==
  [scope |-> <<i, j>>,
   tuples |-> {<<val1, val2>> : val1 \in Range(cur_domain(cur, i)),
                                val2 \in Range(cur_domain(cur, j))}
                \ {<<val, val>> : val \in 1..MaxDigit}]

\* create_satisfying_tuples: the tuples over the current domains of var_list
\* that extend t with no value used twice
RECURSIVE create_satisfying_tuples(_, _, _)
create_satisfying_tuples(cur, var_list, t) ==
  IF Len(t) = Len(var_list) THEN {t}
  ELSE UNION {create_satisfying_tuples(cur, var_list, Append(t, val)) :
                val \in Range(cur_domain(cur, var_list[Len(t) + 1])) \ Range(t)}

\* create_constraint: an all-different constraint over var_list
create_constraint(cur, var_list) ==
  [scope |-> var_list, tuples |-> create_satisfying_tuples(cur, var_list, <<>>)]

\* the constraints of the row: the NOT-EQUAL ones of model 1, then the
\* all-different one of model 2
RowConstraints(cur) ==
  <<NotEqual(cur, 1, 2), NotEqual(cur, 1, 3), NotEqual(cur, 2, 3),
    create_constraint(cur, <<1, 2, 3>>)>>

\* the lists of constraints enforce_gac is called with
RECURSIVE ConstraintLists(_)
ConstraintLists(n) ==
  IF n = 0 THEN {<<>>}
  ELSE ConstraintLists(n - 1)
         \cup {Append(l, c) : l \in {m \in ConstraintLists(n - 1) : Len(m) = n - 1},
                              c \in 1..4}

\* Constraint.has_support(var, val): some satisfying tuple gives val to var
\* and to every variable of the scope a value of its current domain
has_support(constraint, cur, var, val) ==
  \E t \in constraint.tuples :
    /\ \E i \in 1..Len(constraint.scope) : constraint.scope[i] = var /\ t[i] = val
    /\ \A i \in 1..Len(constraint.scope) :
         t[i] \in Range(cur_domain(cur, constraint.scope[i]))

\* the other branch after a prune: no constraint leaves constraint_list2
gac_requeue_none(g, var) == g

\* after a prune of var that left values: every constraint of constraint_list2
\* with var in its scope is appended to GACQueue and popped from constraint_list2
gac_requeue(g, var) ==
  [g EXCEPT
     !.GACQueue = @ \o SelectSeq(g.constraint_list2,
                                 LAMBDA o : var \in Range(g.constraints[o].scope)),
     !.constraint_list2 = SelectSeq(@, LAMBDA o : var \notin Range(g.constraints[o].scope))]

\* for val in var.cur_domain(): vals is what is left of the list the loop
\* took when it started; g.returned is set by return False
RECURSIVE gac_vals(_, _, _, _)
gac_vals(g, constraint, var, vals) ==
  IF vals = <<>> THEN g
  ELSE IF has_support(g.constraints[constraint], g.cur, var, Head(vals))
  THEN gac_vals(g, constraint, var, Tail(vals))
  ELSE \* Assignment not found
    IF cur_domain(prune_value(g.cur, var, Head(vals)), var) = <<>>
    THEN [g EXCEPT !.cur = prune_value(g.cur, var, Head(vals)), !.returned = TRUE]
    ELSE gac_vals(gac_requeue([g EXCEPT !.cur = prune_value(g.cur, var, Head(vals))], var),
                  constraint, var, Tail(vals))

\* for var in constraint.scope
RECURSIVE gac_scope(_, _, _)
gac_scope(g, constraint, scope) ==
  IF g.returned \/ scope = <<>> THEN g
  ELSE gac_scope(gac_vals(g, constraint, Head(scope), cur_domain(g.cur, Head(scope))),
                 constraint, Tail(scope))

\* one pass of while GACQueue: pop(0), append to constraint_list2, the two loops
gac_pass(g) ==
  gac_scope([g EXCEPT !.GACQueue = Tail(@),
                      !.constraint_list2 = Append(@, Head(g.GACQueue))],
            Head(g.GACQueue), g.constraints[Head(g.GACQueue)].scope)

\* a board, the variables and constraints built from it, a list of them
InitGAC ==
  /\ \E board \in Boards, constraint_list \in ConstraintLists(MaxConstraints) :
       csp = [dom |-> create_variables(board),
              cur |-> create_variables(board),
              constraints |-> RowConstraints(create_variables(board)),
              constraint_list |-> constraint_list,
              GACQueue |-> <<>>,
              constraint_list2 |-> <<>>,
              passes |-> 0,
              returned |-> FALSE]
  /\ pc = "csp"
  /\ V = <<>>
  /\ Fac = <<>>
  /\ lists = <<>>
  /\ EvidenceVars = <<>>
  /\ QueryVar = None
  /\ newFactors = None
  /\ Z = <<>>
  /\ result = None
  /\ pre = NoStep
  /\ step = NoStep
  /\ chosen = <<>>
  /\ scopes = <<>>
  /\ Vars = <<>>
  /\ ordering = <<>>
  /\ written = <<>>
  /\ nWrites = 0
  /\ lookups = <<>>

\* enforce_gac(constraint_list): GACQueue = list(constraint_list)
GACCall ==
  /\ pc = "csp"
  /\ csp' = [csp EXCEPT !.GACQueue = csp.constraint_list, !.constraint_list2 = <<>>]
  /\ pc' = "gac_loop"
  /\ UNCHANGED <<V, Fac, lists, EvidenceVars, QueryVar, newFactors, Z, result, histVars,
                 orderVars, factorVars, lookups>>

\* one pass of the while loop; a domain wipe-out returns False
GACPass ==
  /\ pc = "gac_loop"
  /\ csp.GACQueue # <<>>
  /\ csp' = [gac_pass(csp) EXCEPT !.passes = @ + 1]
  /\ pc' = IF gac_pass(csp).returned THEN "gac_done" ELSE "gac_loop"
  /\ result' = IF gac_pass(csp).returned THEN FALSE ELSE result
  /\ UNCHANGED <<V, Fac, lists, EvidenceVars, QueryVar, newFactors, Z, histVars,
                 orderVars, factorVars, lookups>>

\* GACQueue is empty: return True
GACReturn ==
  /\ pc = "gac_loop"
  /\ csp.GACQueue = <<>>
  /\ csp' = [csp EXCEPT !.returned = TRUE]
  /\ pc' = "gac_done"
  /\ result' = TRUE
  /\ UNCHANGED <<V, Fac, lists, EvidenceVars, QueryVar, newFactors, Z, histVars,
                 orderVars, factorVars, lookups>>

NextGAC ==
  \/ GACCall
  \/ GACPass
  \/ GACReturn

SpecGAC == InitGAC /\ [][NextGAC]_vars

\* the values left in all current domains
RECURSIVE DomainTotal(_, _)
DomainTotal(cur, n) == IF n = 0 THEN 0 ELSE Len(cur[n]) + DomainTotal(cur, n - 1)

\* a value of a current domain, and a constraint of the list with the
\* variable in its scope, such that no satisfying tuple of the constraint
\* with that value lies within the current domains
Unsupported(g, o, var, val) ==
  /\ var \in Range(g.constraints[o].scope)
  /\ val \in Range(g.cur[var])
  /\ \A t \in g.constraints[o].tuples :
       \/ \E i \in 1..Len(t) : g.constraints[o].scope[i] = var /\ t[i] # val
       \/ \E i \in 1..Len(t) : t[i] \notin Range(g.cur[g.constraints[o].scope[i]])

GACConsistent(g) ==
  \A o \in Range(g.constraint_list), var \in Cells, val \in 1..MaxDigit :
    ~Unsupported(g, o, var, val)

\* pruning has emptied the current domain of some variable
WipedOut(g) == \E var \in Cells : g.cur[var] = <<>> /\ g.dom[var] # <<>>

\* every pass either prunes a value or leaves the domains and shortens the queue
GACProgress ==
  (pc = "gac_loop" /\ csp' # csp) =>
     \/ DomainTotal(csp'.cur, 3) < DomainTotal(csp.cur, 3)
     \/ /\ csp'.cur = csp.cur
        /\ Len(csp'.GACQueue) < Len(csp.GACQueue) \/ pc' = "gac_done"

\* what holds of the call once it has returned
GACReturned ==
  (pc' = "gac_done") =>
     /\ (result' = FALSE) <=> WipedOut(csp')
     /\ (result' = TRUE) => GACConsistent(csp')
     /\ result' \in {TRUE, FALSE}

\* C17: every pass of enforce_gac prunes a value of a finite domain or shortens
\* GACQueue with the domains unchanged, a pass is enabled whenever the queue is
\* not empty and the return when it is (so the call terminates); it returns
\* False exactly when pruning has emptied a current domain, and when it
\* returns True every value left in the current domain of every variable in
\* the scope of every constraint of the list has a support in that constraint.
C17_EnforceGAC == [][GACProgress /\ GACReturned]_vars

\* C17 witness: the call has returned True after a prune put back on the
\* queue a constraint that had been checked (more passes than constraints)
\* and the re-check pruned again: a value is gone from at least two cells
C17_Witness ==
  /\ pc = "gac_done"
  /\ result = TRUE
  /\ csp.passes > Len(csp.constraint_list)
  /\ Cardinality({c \in Cells : csp.cur[c] # csp.dom[c]}) >= 2

====
